---- MODULE Spec2Model ----
(***************************************************************************)
(* Model of src/alert_script.py: the ETF accumulation-zone signal engine   *)
(* (calculate_zone_score, calculate_volatility, calculate_signal), the     *)
(* data fetch wrapper (fetch_data) and the per-ticker loop of main.        *)
(*                                                                         *)
(* Numbers.  Python floats are modelled as fixed-point numbers: a finite   *)
(* float x is the record Fin(n) with n = x * Unit, NaN and the infinities  *)
(* are separate records.  Divisions round to the nearest fixed-point unit  *)
(* but never turn a non-zero quotient into zero (a double has far more     *)
(* dynamic range than any value computed here, so a non-zero quotient      *)
(* does not underflow in the program).                                     *)
(***************************************************************************)
EXTENDS Integers, Sequences, FiniteSets, TLC

VARIABLES EMA_DAYS,    \* the horizon list (module-level configuration)
          pc,          \* position of the modelled call / of main
          ema_diffs,   \* argument of calculate_zone_score
          zone,        \* value returned by calculate_zone_score
          daily_df,    \* the price frame handed to the engine
          volatility,  \* value returned by calculate_volatility
          result,      \* value returned by calculate_signal
          reports,     \* main: the report list
          fetched,     \* main: what the data provider did for each ticker so far
          force_buy,   \* main: is_last_day_of_month(), line 590
          best_zone,   \* main: the best zone score, when line 632 computed it
          subject      \* main: the email subject of lines 628-636

vars == <<EMA_DAYS, pc, ema_diffs, zone, daily_df, volatility, result, reports, fetched,
          force_buy, best_zone, subject>>

----------------------------------------------------------------------------
(* Bounds of the model *)

MaxDev == 2        \* deviations of the classifier inputs range over -MaxDev..MaxDev percent
MaxTail == 3       \* a price series ends with at most MaxTail freely chosen closes
MaxTickers == 3    \* main is run over the first MaxTickers entries of TICKERS

----------------------------------------------------------------------------
(* Configuration, lines 16-29 *)

Unit == 10 * 100   \* fixed-point units per 1.0

TICKERS == <<"NIFTYBEES.NS", "BANKBEES.NS", "GOLDBEES.NS", "AUTOBEES.NS", "ITBEES.NS",
             "JUNIORBEES.NS", "PHARMABEES.NS", "SPY", "QQQ">>

CanonicalEMA_DAYS == <<20, 50, 100, 200>>

VOLATILITY_PERIOD == 21

VOLATILITY_THRESHOLD == (5 * Unit) \div 2    \* 2.5 (percent)

None == "None"

----------------------------------------------------------------------------
(* Floats *)

Fin(n) == [cls |-> "fin", v |-> n]
NaN == [cls |-> "nan", v |-> 0]
PosInf == [cls |-> "inf", v |-> 1]

isnan(x) == x.cls = "nan"
isinf(x) == x.cls = "inf"
IsFinite(x) == x.cls = "fin"

\* Python comparisons: every comparison with NaN is False
Key(x) == IF isinf(x) THEN x.v * (2 ^ 30) ELSE x.v
Lt(x, y) == ~isnan(x) /\ ~isnan(y) /\ Key(x) < Key(y)
Le(x, y) == ~isnan(x) /\ ~isnan(y) /\ Key(x) <= Key(y)

Abs(n) == IF n < 0 THEN 0 - n ELSE n
Sign(n) == IF n < 0 THEN 0 - 1 ELSE IF n > 0 THEN 1 ELSE 0

\* a / b (b > 0) rounded to the nearest unit; a non-zero quotient stays non-zero
RoundDiv(a, b) ==
    LET q == (2 * Abs(a) + b) \div (2 * b)
    IN  IF a = 0 THEN 0 ELSE Sign(a) * (IF q = 0 THEN 1 ELSE q)

----------------------------------------------------------------------------
(* calculate_zone_score, lines 80-106.  ema_diffs is a sequence of floats, *)
(* shortest horizon first; indexing past its end raises IndexError.        *)

Raise(msg) == [exc |-> msg]
Raised(r) == "exc" \in DOMAIN r

Zero == Fin(0)

GoatedLabel == "Goated Price (Below 200 EMA)"
ExcellentLabel == "Excellent Price (Below 100 EMA)"
GreatLabel == "Great Price (Below 50 EMA)"
GoodLabel == "Good Price (Below 20 EMA)"
VeryExpensiveLabel == "Very Expensive (Above all EMAs)"
ExpensiveLabel == "Expensive (Above 50 EMA)"
HighLabel == "High Zone (Above 20 EMA)"
CautionLabel == "Caution Zone (Near 20 EMA)"

Zone(s, l) == [score |-> s, label |-> l]

\* calculate_zone_score with a default zone for a list of fewer than four deviations
calculate_zone_score_lenient(d) ==
    IF Len(d) < 4 THEN Zone(30, CautionLabel)
    ELSE IF Lt(d[4], Zero)
         THEN IF Lt(d[3], Zero)
              THEN IF Lt(d[2], Zero)
                   THEN IF Lt(d[1], Zero)
                        THEN Zone(60, GoodLabel)
                        ELSE Zone(75, GreatLabel)
                   ELSE Zone(90, ExcellentLabel)
              ELSE Zone(100, GoatedLabel)
         ELSE IF Lt(Zero, d[1])
              THEN IF Lt(Zero, d[2])
                   THEN IF Lt(Zero, d[3])
                        THEN Zone(0, VeryExpensiveLabel)
                        ELSE Zone(10, ExpensiveLabel)
                   ELSE Zone(20, HighLabel)
              ELSE Zone(30, CautionLabel)

\* calculate_zone_score with the label of the neighbouring tier on the score 75
calculate_zone_score_label_slip(d) ==
    IF Len(d) < 4 THEN Raise("IndexError")
    ELSE IF Lt(d[4], Zero)
         THEN IF Lt(d[3], Zero)
              THEN IF Lt(d[2], Zero)
                   THEN IF Lt(d[1], Zero)
                        THEN Zone(60, GoodLabel)
                        ELSE Zone(75, GoodLabel)
                   ELSE Zone(90, ExcellentLabel)
              ELSE Zone(100, GoatedLabel)
         ELSE IF Lt(Zero, d[1])
              THEN IF Lt(Zero, d[2])
                   THEN IF Lt(Zero, d[3])
                        THEN Zone(0, VeryExpensiveLabel)
                        ELSE Zone(10, ExpensiveLabel)
                   ELSE Zone(20, HighLabel)
              ELSE Zone(30, CautionLabel)

calculate_zone_score(d) ==
    IF Len(d) < 4 THEN Raise("IndexError")
    ELSE IF Lt(d[4], Zero)
         THEN IF Lt(d[3], Zero)
              THEN IF Lt(d[2], Zero)
                   THEN IF Lt(d[1], Zero)
                        THEN Zone(60, GoodLabel)
                        ELSE Zone(75, GreatLabel)
                   ELSE Zone(90, ExcellentLabel)
              ELSE Zone(100, GoatedLabel)
         ELSE IF Lt(Zero, d[1])
              THEN IF Lt(Zero, d[2])
                   THEN IF Lt(Zero, d[3])
                        THEN Zone(0, VeryExpensiveLabel)
                        ELSE Zone(10, ExpensiveLabel)
                   ELSE Zone(20, HighLabel)
              ELSE Zone(30, CautionLabel)

----------------------------------------------------------------------------
(* Price frames.  A frame is the Close column of a pandas DataFrame (whole *)
(* currency units, oldest first) and whether the column is present at all; *)
(* the frame has as many rows as Close has entries.                        *)

Frame(c) == [hasClose |-> TRUE, Close |-> c]
NoCloseFrame(c) == [hasClose |-> FALSE, Close |-> c]
EmptyFrame == Frame(<< >>)           \* pd.DataFrame()
Rows(df) == Len(df.Close)
empty(df) == Rows(df) = 0

\* df.tail(n) / Series.iloc[-n:]
tail(c, n) == IF Len(c) <= n THEN c ELSE SubSeq(c, Len(c) - n + 1, Len(c))

\* Folds over c[lo..hi] are written by halving the range, which computes the
\* same left-to-right result with a recursion of logarithmic depth.
RECURSIVE SumIn(_, _, _)
SumIn(c, lo, hi) ==
    IF lo > hi THEN 0
    ELSE IF lo = hi THEN c[lo]
    ELSE LET mid == (lo + hi) \div 2 IN SumIn(c, lo, mid) + SumIn(c, mid + 1, hi)

Sum(c) == SumIn(c, 1, Len(c))

\* Series.mean()
mean(c) == RoundDiv(Sum(c) * Unit, Len(c))

\* Series.ewm(span=span, adjust=False).mean() at position t:
\* y_1 = x_1, y_t = (1 - a) y_(t-1) + a x_t with a = 2 / (span + 1)
RECURSIVE EwmIn(_, _, _, _, _)
EwmIn(c, span, y, lo, hi) ==      \* y updated with c[lo], ..., c[hi] in turn
    IF lo > hi THEN y
    ELSE IF lo = hi THEN RoundDiv((span - 1) * y + 2 * c[lo] * Unit, span + 1)
    ELSE LET mid == (lo + hi) \div 2
             left == EwmIn(c, span, y, lo, mid)
         IN  IF left >= 0 THEN EwmIn(c, span, left, mid + 1, hi)   \* the left half first
                          ELSE EwmIn(c, span, left, mid + 1, hi)

ewm_mean(c, span, t) == EwmIn(c, span, c[1] * Unit, 2, t)

----------------------------------------------------------------------------
(* safe_float_conversion, lines 65-72 *)

safe_float_conversion(value) ==
    IF isnan(value) \/ isinf(value) THEN Zero ELSE value

(* calculate_percentage_diff, lines 74-78 *)

\* calculate_percentage_diff with the operands of the subtraction exchanged
calculate_percentage_diff_flipped(current, ma) ==
    IF ma.v = 0 \/ isnan(ma) \/ isinf(ma) THEN Zero
    ELSE Fin(Sign(ma.v) * RoundDiv((ma.v - current.v) * Unit, Abs(ma.v)) * 100)

calculate_percentage_diff(current, ma) ==
    IF ma.v = 0 \/ isnan(ma) \/ isinf(ma) THEN Zero
    ELSE Fin(Sign(ma.v) * RoundDiv((current.v - ma.v) * Unit, Abs(ma.v)) * 100)

----------------------------------------------------------------------------
(* calculate_volatility, lines 108-123 *)

\* atanh(z) = z + z^3/3 + z^5/5 + ... for 0 <= z < 1, p = z^(2k+1)
RECURSIVE AtanhSeries(_, _, _)
AtanhSeries(z, p, k) ==
    IF k > 12 \/ p = 0 THEN 0
    ELSE (p \div (2 * k + 1)) + AtanhSeries(z, (((p * z) \div Unit) * z) \div Unit, k + 1)

\* np.log(a / b) for closes a, b of the same sign (a / b > 0):
\* ln(a/b) = 2 atanh((|a| - |b|) / (|a| + |b|))
log_ratio(a, b) ==
    LET z == Abs(RoundDiv((Abs(a) - Abs(b)) * Unit, Abs(a) + Abs(b)))
        l == 2 * AtanhSeries(z, z, 0)
    IN  Sign(Abs(a) - Abs(b)) * (IF a # b /\ l = 0 THEN 1 ELSE l)

\* np.log(x / x.shift(1)) for non-zero closes, without the NaN entries that
\* Series.std() skips: the leading one, and the log of a negative ratio
log_returns(c) ==
    LET at == SelectSeq([t \in 1..(Len(c) - 1) |-> t], LAMBDA t : c[t + 1] * c[t] > 0)
    IN  [k \in 1..Len(at) |-> log_ratio(c[at[k] + 1], c[at[k]])]

SumSq(r, m) == Sum([t \in 1..Len(r) |-> (r[t] - m) * (r[t] - m)])

RECURSIVE IsqrtIn(_, _, _)
IsqrtIn(n, lo, hi) ==     \* the largest s in lo..hi with s * s <= n
    IF lo >= hi THEN lo
    ELSE LET mid == (lo + hi + 1) \div 2
         IN  IF mid * mid <= n THEN IsqrtIn(n, mid, hi) ELSE IsqrtIn(n, lo, mid - 1)

Isqrt(n) == IsqrtIn(n, 0, IF n < 40000 THEN n ELSE 40000)

\* Series.std(): sample standard deviation (ddof = 1), NaN with fewer than two values
std(r) ==
    IF Len(r) < 2 THEN NaN
    ELSE LET m == RoundDiv(Sum(r), Len(r))
             var == RoundDiv(SumSq(r, m), Len(r) - 1)
         IN  Fin(Isqrt(var))

Sqrt252 == Isqrt(252 * Unit * Unit)     \* np.sqrt(252)

\* calculate_volatility with both length guards off by one (< 1 for < 2)
calculate_volatility_short_guard(df) ==
    IF Rows(df) < 1 THEN Zero
    ELSE LET volatility_data == tail(df.Close, VOLATILITY_PERIOD * 3)
         IN  IF Len(volatility_data) < 1 THEN Zero
             ELSE IF ~df.hasClose THEN Zero
             ELSE LET s == std(log_returns(volatility_data))
                  IN  IF isnan(s) THEN NaN
                      ELSE Fin(RoundDiv(s.v * Sqrt252, Unit) * 100)

calculate_volatility(df) ==
    IF Rows(df) < 2 THEN Zero
    ELSE LET volatility_data == tail(df.Close, VOLATILITY_PERIOD * 3)
         IN  IF Len(volatility_data) < 2 THEN Zero
             ELSE IF ~df.hasClose THEN Zero      \* KeyError, caught at line 121
             ELSE LET s == std(log_returns(volatility_data))
                  IN  IF isnan(s) THEN NaN
                      ELSE Fin(RoundDiv(s.v * Sqrt252, Unit) * 100)

----------------------------------------------------------------------------
(* calculate_signal, lines 125-174 *)

\* lines 134-138: one EMA value, with the fallbacks for a short frame
ema_value(c, ema) ==
    IF Len(c) >= ema THEN Fin(ewm_mean(c, ema, Len(c)))
    ELSE IF Len(c) >= 5 THEN Fin(mean(tail(c, ema)))
    ELSE Fin(c[Len(c)] * Unit)

RECURSIVE MinTo(_, _)
MinTo(xs, t) ==          \* min(xs[1..t]) of finite floats
    IF t = 1 THEN xs[1]
    ELSE LET m == MinTo(xs, t - 1) IN IF Lt(xs[t], m) THEN xs[t] ELSE m

min(xs) == MinTo(xs, Len(xs))

\* the buy rule without the volatility and below-all-EMAs conditions
buy_signal_rule_score_only(zone_score, vol, last_close, ema_values) ==
    zone_score >= 75

\* the buy rule with the Good tier (60) as its threshold
buy_signal_rule_from_good(zone_score, vol, last_close, ema_values) ==
    /\ zone_score >= 60
    /\ Le(vol, Fin(VOLATILITY_THRESHOLD))
    /\ Lt(last_close, min(ema_values))

\* lines 156-160
buy_signal_rule(zone_score, vol, last_close, ema_values) ==
    /\ zone_score >= 75
    /\ Le(vol, Fin(VOLATILITY_THRESHOLD))
    /\ Lt(last_close, min(ema_values))

\* lines 127-171: the body of the try block; Raise(..) stands for an exception
signal_body(daily, days) ==
    IF empty(daily) THEN Raise("Empty DataFrame received")
    ELSE IF ~daily.hasClose THEN Raise("KeyError: Close")
    ELSE LET c == daily.Close
             ema_values == [k \in 1..Len(days) |-> safe_float_conversion(ema_value(c, days[k]))]
             last_close == safe_float_conversion(Fin(c[Len(c)] * Unit))
             diffs == [k \in 1..Len(days) |-> calculate_percentage_diff(last_close, ema_values[k])]
             vol == calculate_volatility(daily)
             zs == calculate_zone_score(diffs)
         IN  IF Raised(zs) THEN zs
             ELSE [buy_signal |-> buy_signal_rule(zs.score, vol, last_close, ema_values),
                   last_close |-> last_close,
                   ema_values |-> ema_values,
                   ema_diffs  |-> diffs,
                   volatility |-> vol,
                   zone_score |-> zs.score,
                   zone_class |-> zs.label,
                   error      |-> None]

\* calculate_signal without its try/except
calculate_signal_nocatch(daily, days) == signal_body(daily, days)

\* lines 126, 172-174: every exception becomes an error result
calculate_signal(daily, days) ==
    LET r == signal_body(daily, days)
    IN  IF Raised(r) THEN [error |-> r.exc] ELSE r

----------------------------------------------------------------------------
(* fetch_data, lines 46-63.  dl is what yf.download does: it raises or it  *)
(* returns a frame.                                                        *)

\* fetch_data without the validation of the data length (lines 57-58)
fetch_data_nolength(dl, days) ==
    IF Len(days) = 0 THEN EmptyFrame
    ELSE IF Raised(dl) THEN EmptyFrame
    ELSE IF empty(dl) THEN EmptyFrame
    ELSE dl

fetch_data(dl, days) ==
    IF Len(days) = 0 THEN EmptyFrame                 \* EMA_DAYS[-1]: IndexError, caught
    ELSE IF Raised(dl) THEN EmptyFrame               \* download error, caught
    ELSE IF empty(dl) THEN EmptyFrame                \* ValueError("No data returned")
    ELSE IF Rows(dl) < days[Len(days)] THEN EmptyFrame   \* ValueError("Insufficient data")
    ELSE dl

----------------------------------------------------------------------------
(* main, lines 592-625: one pass of the ticker loop for the ticker at      *)
(* position Len(reports) + 1                                               *)

report_for(ticker, dl, days) ==
    LET daily == fetch_data(dl, days)
    IN  IF empty(daily)
        THEN [ticker |-> ticker, error |-> "Failed to fetch data", buy_signal |-> FALSE]
        ELSE LET r == calculate_signal(daily, days)
             IN  IF r.error # None
                 THEN [ticker |-> ticker, error |-> r.error, buy_signal |-> FALSE]
                 ELSE [ticker |-> ticker,
                       last_close |-> r.last_close,
                       ema_values |-> r.ema_values,
                       ema_diffs  |-> r.ema_diffs,
                       volatility |-> r.volatility,
                       zone_score |-> r.zone_score,
                       zone_class |-> r.zone_class,
                       buy_signal |-> r.buy_signal,
                       error      |-> None]

(* main, lines 627-636: the email subject *)

NotComputed == [computed |-> FALSE, v |-> 0]
Computed(n) == [computed |-> TRUE, v |-> n]

\* line 631: any(r.get('buy_signal', False) for r in reports)
any_buy_signal(rs) == \E k \in 1..Len(rs) : rs[k].buy_signal

\* the best zone score over the reports that bought only
best_zone_of_buyers(rs) ==
    LET scores == {rs[k].zone_score : k \in {j \in 1..Len(rs) : rs[j].error = None /\ rs[j].buy_signal}}
    IN  IF scores = {} THEN Raise("ValueError")
        ELSE Computed(CHOOSE m \in scores : \A n \in scores : n <= m)

\* line 632: max(r['zone_score'] for r in reports if not r.get('error')),
\* a ValueError when no report qualifies
best_zone_of(rs) ==
    LET scores == {rs[k].zone_score : k \in {j \in 1..Len(rs) : rs[j].error = None}}
    IN  IF scores = {} THEN Raise("ValueError")
        ELSE Computed(CHOOSE m \in scores : \A n \in scores : n <= m)

PlainSubject == "Enhanced ETF Report"
MonthlySubject == "Monthly Reminder: Enhanced ETF Report"
GoatedSubject == "Goated Price Alert: Enhanced ETF Report"
GreatSubject == "Great Accumulation Zone: Enhanced ETF Report"

\* lines 628-636; best is what line 632 returned, NotComputed when it did not run
subject_for(fb, any_buy, best) ==
    IF fb THEN MonthlySubject
    ELSE IF any_buy
         THEN IF best.v >= 90 THEN GoatedSubject
              ELSE IF best.v >= 75 THEN GreatSubject
              ELSE PlainSubject
         ELSE PlainSubject

----------------------------------------------------------------------------
(* Inputs *)

Closes == {50, 100, 200}
Run(c, l) == [t \in 1..l |-> c]

RECURSIVE SeqsUpTo(_)
SeqsUpTo(n) ==           \* the sequences of at most n closes
    IF n = 0 THEN {<< >>}
    ELSE LET S == SeqsUpTo(n - 1) IN S \cup {Append(s, c) : s \in S, c \in Closes}

WindowLen == VOLATILITY_PERIOD * 3
LongLen == CanonicalEMA_DAYS[4]

\* a stretch of history at constant prices: nothing, one run of 63 or 200
\* closes, or a run of 200 closes followed by a run of 63
Histories == {<< >>}
                 \cup {Run(c, l) : c \in Closes, l \in {WindowLen, LongLen}}
                 \cup {Run(c, LongLen) \o Run(d, WindowLen) : c, d \in Closes}

\* a price series: a history followed by at most MaxTail further closes
AllSeries == {h \o t : h \in Histories, t \in SeqsUpTo(MaxTail)}

Frames == {Frame(s) : s \in AllSeries}
              \cup {NoCloseFrame(Run(c, l)) : c \in Closes, l \in {1, 2, LongLen}}

Devs == {Fin(d * Unit) : d \in (0 - MaxDev)..MaxDev} \cup {NaN}

Tickers == SubSeq(TICKERS, 1, MaxTickers)

\* what the data provider may do for one ticker: fail, or return no rows, too
\* few rows, enough rows (falling or rebounding prices), rows without a Close
\* column, or rows whose closes turn negative (the provider's data is not
\* validated, and such a frame is what sets buy_signal)
Downloads == {Raise("download failed"),
              EmptyFrame,
              Frame(Run(100, WindowLen)),
              Frame(Run(200, LongLen) \o Run(100, WindowLen)),
              Frame(Run(200, LongLen) \o Run(50, WindowLen) \o <<100>>),
              Frame(Run(100, LongLen) \o Run(0 - 100, 10)),
              NoCloseFrame(Run(100, LongLen))}

Configs == {CanonicalEMA_DAYS, << >>, <<200, 100, 50, 20>>}

----------------------------------------------------------------------------
(* Specifications *)

\* calculate_zone_score applied to a 4-tuple of deviations
InitZone ==
    /\ EMA_DAYS = CanonicalEMA_DAYS
    /\ pc = "zone_call"
    /\ ema_diffs \in [1..4 -> Devs]
    /\ zone = None
    /\ daily_df = EmptyFrame /\ volatility = None /\ result = None
    /\ reports = << >> /\ fetched = << >>
    /\ force_buy = FALSE /\ best_zone = NotComputed /\ subject = None

ZoneCall ==
    /\ pc = "zone_call"
    /\ zone' = calculate_zone_score(ema_diffs)
    /\ pc' = "zone_done"
    /\ UNCHANGED <<EMA_DAYS, ema_diffs, daily_df, volatility, result, reports, fetched,
                 force_buy, best_zone, subject>>

NextZone == ZoneCall

SpecZone == InitZone /\ [][NextZone]_vars

\* calculate_volatility or calculate_signal applied to a price frame
InitEngine ==
    /\ EMA_DAYS = CanonicalEMA_DAYS
    /\ pc = "start"
    /\ daily_df \in Frames
    /\ ema_diffs = << >> /\ zone = None /\ volatility = None /\ result = None
    /\ reports = << >> /\ fetched = << >>
    /\ force_buy = FALSE /\ best_zone = NotComputed /\ subject = None

VolatilityCall ==
    /\ pc = "start"
    /\ volatility' = calculate_volatility(daily_df)
    /\ pc' = "volatility_done"
    /\ UNCHANGED <<EMA_DAYS, ema_diffs, zone, daily_df, result, reports, fetched,
                 force_buy, best_zone, subject>>

SignalCall ==
    /\ pc = "start"
    /\ result' = calculate_signal(daily_df, EMA_DAYS)
    /\ pc' = "signal_done"
    /\ UNCHANGED <<EMA_DAYS, ema_diffs, zone, daily_df, volatility, reports, fetched,
                 force_buy, best_zone, subject>>

NextEngine == VolatilityCall \/ SignalCall

SpecEngine == InitEngine /\ [][NextEngine]_vars

\* main: the ticker loop
InitMain ==
    /\ EMA_DAYS = CanonicalEMA_DAYS
    /\ pc = "loop"
    /\ reports = << >> /\ fetched = << >>
    /\ force_buy \in BOOLEAN /\ best_zone = NotComputed /\ subject = None
    /\ ema_diffs = << >> /\ zone = None /\ daily_df = EmptyFrame
    /\ volatility = None /\ result = None

MainIterate ==
    /\ pc = "loop"
    /\ Len(reports) < Len(Tickers)
    /\ \E dl \in Downloads :
          /\ reports' = Append(reports, report_for(Tickers[Len(reports) + 1], dl, EMA_DAYS))
          /\ fetched' = Append(fetched, dl)
    /\ UNCHANGED <<EMA_DAYS, pc, ema_diffs, zone, daily_df, volatility, result,
                   force_buy, best_zone, subject>>

MainLoopExit ==
    /\ pc = "loop"
    /\ Len(reports) = Len(Tickers)
    /\ pc' = "subject"
    /\ UNCHANGED <<EMA_DAYS, ema_diffs, zone, daily_df, volatility, result, reports, fetched,
                 force_buy, best_zone, subject>>

\* lines 627-636; an empty max() at line 632 ends main with a ValueError
MainSubject ==
    /\ pc = "subject"
    /\ LET any_buy == any_buy_signal(reports)
           best == IF ~force_buy /\ any_buy THEN best_zone_of(reports) ELSE NotComputed
       IN  IF Raised(best)
           THEN /\ pc' = "crashed"
                /\ UNCHANGED <<best_zone, subject>>
           ELSE /\ pc' = "done"
                /\ best_zone' = best
                /\ subject' = subject_for(force_buy, any_buy, best)
    /\ UNCHANGED <<EMA_DAYS, ema_diffs, zone, daily_df, volatility, result, reports, fetched,
                   force_buy>>

NextMain == MainIterate \/ MainLoopExit \/ MainSubject

SpecMain == InitMain /\ [][NextMain]_vars

\* the engine calls and main together
InitProgram == InitEngine \/ InitMain

NextProgram == NextEngine \/ NextMain

SpecProgram == InitProgram /\ [][NextProgram]_vars

\* the engine and main under each horizon list
InitConfig ==
    /\ EMA_DAYS \in Configs
    /\ \/ pc = "start" /\ daily_df \in {Frame(h) : h \in Histories}
       \/ pc = "loop" /\ daily_df = EmptyFrame
    /\ reports = << >> /\ fetched = << >>
    /\ force_buy = FALSE /\ best_zone = NotComputed /\ subject = None
    /\ ema_diffs = << >> /\ zone = None /\ volatility = None /\ result = None

NextConfig == SignalCall \/ MainIterate \/ MainLoopExit

SpecConfig == InitConfig /\ [][NextConfig]_vars

----------------------------------------------------------------------------
(* Properties of calculate_zone_score (SpecZone) *)

BelowEMA(k) == Lt(ema_diffs[k], Zero)       \* the price is below horizon k
AboveEMA(k) == Lt(Zero, ema_diffs[k])
BelowOnly(k) == BelowEMA(k) /\ \A j \in (1..4) \ {k} : ~BelowEMA(j)

\* C1: below the 200-day EMA scores 100; below the 100-day EMA only scores 90;
\* below the 50-day EMA only scores 75; below the 20-day EMA only scores 60.
C1_PolicyATiering ==
    pc = "zone_done" =>
        /\ BelowEMA(4) => zone.score = 100
        /\ BelowOnly(3) => zone.score = 90
        /\ BelowOnly(2) => zone.score = 75
        /\ BelowOnly(1) => zone.score = 60

\* C2: with the 100-day and 200-day deviations negative and the 20-day and
\* 50-day deviations positive, the result is score 100 with the Goated label.
C2_TieBreakLongestHorizon ==
    (pc = "zone_done" /\ BelowEMA(3) /\ BelowEMA(4) /\ AboveEMA(1) /\ AboveEMA(2))
        => zone = Zone(100, GoatedLabel)

\* the label the claim ties to each score
LabelOfScore(n) ==
    CASE n = 100 -> GoatedLabel
      [] n = 90  -> ExcellentLabel
      [] n = 75  -> GreatLabel
      [] n = 60  -> GoodLabel
      [] n = 30  -> CautionLabel
      [] n = 20  -> HighLabel
      [] n = 10  -> ExpensiveLabel
      [] n = 0   -> VeryExpensiveLabel

\* C11: the score is one of 0, 10, 20, 30, 60, 75, 90, 100 and the label is the
\* one tied to that score, so no score comes with two labels.
C11_ScoreLabelConsistency ==
    pc = "zone_done" =>
        /\ zone.score \in {0, 10, 20, 30, 60, 75, 90, 100}
        /\ zone.label = LabelOfScore(zone.score)

\* the classifier returned the Great tier
C11_Witness == pc = "zone_done" /\ zone = Zone(75, GreatLabel) /\ ~BelowEMA(1)

----------------------------------------------------------------------------
(* Properties of calculate_signal and calculate_volatility (SpecEngine) *)

Scored == pc = "signal_done" /\ result.error = None
CloseBelowAll == \A k \in 1..Len(result.ema_values) : Lt(result.last_close, result.ema_values[k])
CloseAboveAll == \A k \in 1..Len(result.ema_values) : Lt(result.ema_values[k], result.last_close)
VolatilityOK == Le(result.volatility, Fin(VOLATILITY_THRESHOLD))

\* C3: a latest close below all four EMAs with volatility at or below the
\* threshold gives zone score 100, the Goated label and buy_signal = True.
C3_ScenarioBelowAllBuys ==
    (Scored /\ CloseBelowAll /\ VolatilityOK)
        => /\ result.zone_score = 100
           /\ result.zone_class = GoatedLabel
           /\ result.buy_signal = TRUE

\* C4: buy_signal is True only if zone_score >= 75 and volatility is at most
\* VOLATILITY_THRESHOLD and the latest close is strictly below every EMA value.
C4_BuyGating ==
    (Scored /\ result.buy_signal)
        => (result.zone_score >= 75 /\ VolatilityOK /\ CloseBelowAll)

\* a score of 75 or more that did not set the flag
C4_Witness == Scored /\ result.zone_score >= 75 /\ ~result.buy_signal

\* C5: a latest close strictly above all four EMAs gives zone score 0, the
\* Very Expensive label and buy_signal = False, whatever the volatility.
C5_ScenarioAboveAll ==
    (Scored /\ CloseAboveAll)
        => /\ result.zone_score = 0
           /\ result.zone_class = VeryExpensiveLabel
           /\ result.buy_signal = FALSE

C5_Witness == Scored /\ CloseAboveAll /\ ~VolatilityOK /\ Len(result.ema_values) = 4

\* C6: for an empty price frame calculate_signal returns a result that carries
\* the error indicator and nothing else, and no exception escapes.
C6_EmptyInputIsErrorResult ==
    (pc = "signal_done" /\ empty(daily_df))
        => /\ ~Raised(result)
           /\ DOMAIN result = {"error"}
           /\ result.error # None

C6_Witness == pc = "signal_done" /\ empty(daily_df) /\ result = [error |-> "Empty DataFrame received"]

\* C8: every numeric field of a non-error result for a non-empty price series
\* is a finite number.
C8_NoNaNLeavesEngine ==
    (Scored /\ ~empty(daily_df))
        => /\ IsFinite(result.last_close)
           /\ \A k \in 1..Len(result.ema_values) : IsFinite(result.ema_values[k])
           /\ \A k \in 1..Len(result.ema_diffs) : IsFinite(result.ema_diffs[k])
           /\ IsFinite(result.volatility)

\* the closes calculate_volatility looks at
Window == tail(daily_df.Close, VOLATILITY_PERIOD * 3)
TwoDistinctCloses == \E s, t \in 1..Rows(daily_df) : daily_df.Close[s] # daily_df.Close[t]
\* the consecutive ratios c[t+1] / c[t] of the window are not all the same
RatiosDiffer(c) == \E t \in 1..(Len(c) - 2) : c[t + 1] * c[t + 1] # c[t + 2] * c[t]

\* C9 as stated: 0.0 below two observations, and strictly positive for every
\* series that contains two closes of different value.
C9_PositiveForDistinctCloses ==
    (pc = "volatility_done" /\ daily_df.hasClose)
        => /\ Rows(daily_df) < 2 => volatility = Zero
           /\ TwoDistinctCloses => Lt(Zero, volatility)

\* C9 amended: 0.0 below two observations, and strictly positive for every
\* series whose last 63 closes number at least three and do not all grow by
\* one constant ratio.
C9_PositiveForUnevenReturns ==
    (pc = "volatility_done" /\ daily_df.hasClose)
        => /\ Rows(daily_df) < 2 => volatility = Zero
           /\ (Len(Window) >= 3 /\ RatiosDiffer(Window)) => Lt(Zero, volatility)

C9_Witness ==
    /\ pc = "volatility_done" /\ daily_df.hasClose
    /\ Rows(daily_df) > VOLATILITY_PERIOD * 3 /\ RatiosDiffer(Window)
    /\ Lt(Zero, volatility)

----------------------------------------------------------------------------
(* Properties of main (SpecMain) and of the horizon list (SpecConfig) *)

\* the data provider failed, or returned no rows, too few rows, or rows that
\* calculate_signal cannot read
FailedTicker(dl) ==
    Raised(dl) \/ empty(dl) \/ Rows(dl) < CanonicalEMA_DAYS[4] \/ ~dl.hasClose

ErrorEntry(r) == /\ DOMAIN r = {"ticker", "error", "buy_signal"}
                 /\ r.error # None
                 /\ r.buy_signal = FALSE
ScoredEntry(r) == /\ {"zone_score", "zone_class", "ema_values", "buy_signal"} \subseteq DOMAIN r
                  /\ r.error = None

\* C7: a failing ticker does not stop the loop; the report list holds one entry
\* per ticker in ticker order, an error entry for each failed ticker and a
\* scored entry for each other ticker.
C7_BatchIsolation ==
    /\ Len(reports) = Len(fetched)
    /\ pc = "subject" => Len(reports) = Len(Tickers)
    /\ \A k \in 1..Len(reports) :
          /\ reports[k].ticker = Tickers[k]
          /\ IF FailedTicker(fetched[k]) THEN ErrorEntry(reports[k]) ELSE ScoredEntry(reports[k])

\* a failed ticker followed by a scored one, at the end of the loop
C7_Witness ==
    /\ pc = "subject"
    /\ \E j, k \in 1..Len(reports) :
          j < k /\ FailedTicker(fetched[j]) /\ Raised(fetched[j]) /\ ScoredEntry(reports[k])

StrictlyIncreasing(h) == \A k \in 1..(Len(h) - 1) : h[k] < h[k + 1]
NothingComputed(r) == DOMAIN r \cap {"ema_values", "ema_diffs", "zone_score", "zone_class"} = {}
TaggedErrors ==
    /\ pc = "signal_done" => (NothingComputed(result) /\ result.error # None)
    /\ \A k \in 1..Len(reports) : NothingComputed(reports[k]) /\ reports[k].error # None

\* C10 as stated: an empty horizon list or one that is not strictly increasing
\* gives a tagged error result and no EMA, deviation or score.
C10_BadHorizonsAreFatal ==
    (Len(EMA_DAYS) = 0 \/ ~StrictlyIncreasing(EMA_DAYS)) => TaggedErrors

\* C10 amended: an empty horizon list gives a tagged error result and no EMA,
\* deviation or score.
C10_EmptyHorizonsAreFatal ==
    Len(EMA_DAYS) = 0 => TaggedErrors

\* a usable frame was downloaded, or handed to calculate_signal, under the empty list
C10_Witness ==
    /\ Len(EMA_DAYS) = 0
    /\ \/ pc = "signal_done" /\ Rows(daily_df) >= CanonicalEMA_DAYS[4]
       \/ \E k \in 1..Len(reports) : ~FailedTicker(fetched[k])

----------------------------------------------------------------------------
(* Properties of the email subject (SpecMain) and of the buy signal (SpecProgram) *)

NonErrored == {k \in 1..Len(reports) : reports[k].error = None}

\* C12: when the best zone score is computed it is the maximum zone_score over
\* exactly the reports without an error, that set is not empty, and the
\* aggregation does not fail.
C12_BestScoreOverNonErrored ==
    /\ pc # "crashed"
    /\ (pc = "done" /\ best_zone.computed)
          => /\ NonErrored # {}
             /\ \E k \in NonErrored : reports[k].zone_score = best_zone.v
             /\ \A k \in NonErrored : reports[k].zone_score <= best_zone.v

\* the best score was computed beside an errored report, and it is the score
\* of a report that did not set buy_signal
C12_Witness ==
    /\ pc = "done" /\ best_zone.computed
    /\ \E k \in 1..Len(reports) : reports[k].error # None
    /\ \E j, k \in NonErrored :
          /\ reports[j].buy_signal /\ ~reports[k].buy_signal
          /\ reports[j].zone_score < reports[k].zone_score
          /\ reports[k].zone_score = best_zone.v

PositiveCloses(df) == \A t \in 1..Len(df.Close) : df.Close[t] > 0
AllDiffsNegative == \A k \in 1..Len(result.ema_diffs) : Lt(result.ema_diffs[k], Zero)

====
